---- MODULE Spec2Model ----
(***************************************************************************)
(* Model of the resume-mcp tool server (src/resume_mcp/mcp_server):        *)
(* the section registry, create_tailored_section and                       *)
(* update_main_tex_with_new_sections, over a document store.               *)
(*                                                                         *)
(* Text is a sequence of lexemes.  Every lexeme stands for a fixed piece   *)
(* of text ("\\input", "{", "sections/", "experience", ".tex", ...); the   *)
(* regular expression of update_main_tex_with_new_sections consumes whole  *)
(* lexemes, and each lexeme is either wholly inside or wholly outside the  *)
(* character class [a-zA-Z0-9_.-].  File names, paths, the master document *)
(* and fragment contents are all such sequences.                           *)
(***************************************************************************)
EXTENDS Integers, Sequences, FiniteSets, TLC

VARIABLES store, request, response, created, ncreated, calls, client

vars == <<store, request, response, created, ncreated, calls, client>>

(***************************************************************************)
(* Bounds of the model.                                                    *)
(***************************************************************************)
MaxList == 2
MaxFiles == 2
MaxProbes == 12

(***************************************************************************)
(* config.py: the section registry and the master document path.           *)
(***************************************************************************)
CV_MAIN_TEX_PATH == <<"main.tex">>

CV_SECTIONS_PATHS ==
    [s \in {<<"heading">>, <<"education">>, <<"experience">>,
            <<"additional_", "experience">>, <<"skills">>}
       |-> <<"sections/">> \o s \o <<".tex">>]

Registered == DOMAIN CV_SECTIONS_PATHS

(***************************************************************************)
(* Lexical helpers: what white space, the suffix character class and      *)
(* IGNORECASE of the regular expression mean for the lexemes of the model. *)
(***************************************************************************)
IsSpace(a) == a \in {" ", "\n"}

InSuffixClass(a) ==
    a \in {"heading", "education", "experience", "EXPERIENCE", "additional_",
           "skills", "bogus_section", "acme", "swe", "old", "x", "_", "-",
           ".tex", "1", "2", "3", "4", "5", "6", "7", "8", "9"}

Lower(a) ==
    CASE a = "\\INPUT" -> "\\input"
      [] a = "EXPERIENCE" -> "experience"
      [] a = "Sections/" -> "sections/"
      [] OTHER -> a

RECURSIVE SkipSpace(_, _)
SkipSpace(t, i) ==
    IF i <= Len(t) /\ IsSpace(t[i]) THEN SkipSpace(t, i + 1) ELSE i

RECURSIVE SkipClass(_, _)
SkipClass(t, i) ==
    IF i <= Len(t) /\ InSuffixClass(t[i]) THEN SkipClass(t, i + 1) ELSE i

IsAt(t, i, a) == i <= Len(t) /\ Lower(t[i]) = Lower(a)

\* mutant: the base section is matched by its length only
LitAt_AnyName(t, i, lit) == i + Len(lit) - 1 <= Len(t)

LitAt(t, i, lit) ==
    /\ i + Len(lit) - 1 <= Len(t)
    /\ \A k \in 1..Len(lit) : Lower(t[i + k - 1]) = Lower(lit[k])

SetMax(S) == CHOOSE m \in S : \A n \in S : n <= m

(***************************************************************************)
(* server.py 186: filename.split(".tex")[0].split("-")[0]                  *)
(***************************************************************************)
RECURSIVE SplitFirst(_, _)
SplitFirst(t, sep) ==
    IF t = << >> \/ Head(t) = sep THEN << >>
    ELSE <<Head(t)>> \o SplitFirst(Tail(t), sep)

BaseSection(filename) == SplitFirst(SplitFirst(filename, ".tex"), "-")

(***************************************************************************)
(* server.py 197-202: pattern_to_find, matched at position i of text t,    *)
(* under re.IGNORECASE.  In order: the word \\input, white space, an open  *)
(* brace, white space, an optional "./" (group 1), "sections/", the        *)
(* escaped base section, an optional group 2 made of "-" and any run of    *)
(* characters of the class a-z A-Z 0-9 _ . - , then ".tex", white space    *)
(* and the closing brace.                                                  *)
(* The result is the match: its last position and the two groups.          *)
(***************************************************************************)
NoMatch == [end |-> 0, g1 |-> << >>, g2 |-> << >>]

MatchAt(base, t, i) ==
    LET p2 == SkipSpace(t, i + 1)
        p3 == SkipSpace(t, p2 + 1)
        hasDot == IsAt(t, p3, "./")
        p4 == IF hasDot THEN p3 + 1 ELSE p3
        p5 == p4 + 1
        p6 == p5 + Len(base)
        hasSuf == IsAt(t, p6, "-")
        runEnd == SkipClass(t, p6 + 1)
        Closes(m) == /\ IsAt(t, m, ".tex")
                     /\ IsAt(t, SkipSpace(t, m + 1), "}")
        \* greedy run of group 2: the longest that still lets .tex and } match
        cands == IF hasSuf THEN {m \in (p6 + 1)..(runEnd - 1) : Closes(m)}
                 ELSE {m \in {p6} : Closes(m)}
    IN  IF /\ IsAt(t, i, "\\input")
           /\ IsAt(t, p2, "{")
           /\ IsAt(t, p4, "sections/")
           /\ LitAt(t, p5, base)
           /\ cands # {}
        THEN LET m == SetMax(cands)
             IN  [end |-> SkipSpace(t, m + 1),
                  g1 |-> IF hasDot THEN <<"./">> ELSE << >>,
                  g2 |-> IF hasSuf THEN SubSeq(t, p6, m - 1) ELSE << >>]
        ELSE NoMatch

(***************************************************************************)
(* server.py 204-205: replacement_string, a template of re.subn: "\\1"     *)
(* and "\\2" in it are group references, all else is copied.               *)
(***************************************************************************)
RECURSIVE ExpandTemplate(_, _)
ExpandTemplate(tpl, m) ==
    IF tpl = << >> THEN << >>
    ELSE (CASE Head(tpl) = "\\1" -> m.g1
            [] Head(tpl) = "\\2" -> m.g2
            [] OTHER -> <<Head(tpl)>>) \o ExpandTemplate(Tail(tpl), m)

ReplacementString(filename) ==
    <<"\\input", "{", "sections/">> \o filename \o <<"}">>

(***************************************************************************)
(* server.py 207-209: pattern_to_find.subn(replacement_string, text):      *)
(* every non-overlapping match, left to right, is replaced; the number of  *)
(* replacements is returned with the text.                                 *)
(***************************************************************************)
\* the leftmost position from i on where the pattern matches, or 0
NextMatch(base, t, i) ==
    LET starts == {j \in i..Len(t) : MatchAt(base, t, j).end # 0}
    IN  IF starts = {} THEN 0 ELSE CHOOSE j \in starts : \A k \in starts : j <= k

RECURSIVE SubnFrom(_, _, _, _)
SubnFrom(base, filename, t, i) ==
    LET j == NextMatch(base, t, i)
    IN  IF j = 0 THEN [text |-> SubSeq(t, i, Len(t)), n |-> 0]
        ELSE LET m == MatchAt(base, t, j)
                 r == SubnFrom(base, filename, t, m.end + 1)
             IN  [text |-> SubSeq(t, i, j - 1)
                             \o ExpandTemplate(ReplacementString(filename), m)
                             \o r.text,
                  n |-> r.n + 1]

Subn(base, filename, t) == SubnFrom(base, filename, t, 1)

\* mutant: an unregistered entry ends the loop (break for continue)
RECURSIVE RepointLoop_Break(_, _)
RepointLoop_Break(text, filenames) ==
    IF filenames = << >> THEN [text |-> text, err |-> << >>]
    ELSE LET filename == Head(filenames)
             base_section == BaseSection(filename)
         IN  IF base_section \notin Registered
             THEN [text |-> text, err |-> << >>]
             ELSE LET r == Subn(base_section, filename, text)
                  IN  IF r.n = 0
                      THEN [text |-> r.text, err |-> base_section]
                      ELSE RepointLoop_Break(r.text, Tail(filenames))

(***************************************************************************)
(* server.py 183-214: the loop over new_section_filenames, on the text     *)
(* read from the master document.  err names the section whose \input was  *)
(* not found (the ToolError of line 214), or is empty.                     *)
(***************************************************************************)
RECURSIVE RepointLoop(_, _)
RepointLoop(text, filenames) ==
    IF filenames = << >> THEN [text |-> text, err |-> << >>]
    ELSE LET filename == Head(filenames)
             base_section == BaseSection(filename)
         IN  IF base_section \notin Registered
             THEN RepointLoop(text, Tail(filenames))
             ELSE LET r == Subn(base_section, filename, text)
                  IN  IF r.n = 0
                      THEN [text |-> r.text, err |-> base_section]
                      ELSE RepointLoop(r.text, Tail(filenames))

\* mutant: the probe never sees a file
Exists_Never(st, path) == FALSE

\* mutant: a write to a path the store holds leaves its content as it is
Write_KeepExisting(st, path, data) ==
    [p \in DOMAIN st \cup {path} |-> IF p \in DOMAIN st THEN st[p] ELSE data]

(***************************************************************************)
(* core.py 61-83: the store client.  The store maps the paths of its files *)
(* to their contents; write replaces the whole content of one path.        *)
(***************************************************************************)
Exists(st, path) == path \in DOMAIN st

Read(st, path) == st[path]

\* the text of the master document in store st
Main(st) == st[CV_MAIN_TEX_PATH]

Write(st, path, data) ==
    [p \in DOMAIN st \cup {path} |-> IF p = path THEN data ELSE st[p]]

(***************************************************************************)
(* server.py 118, 129: os.path.dirname of a registry path and os.path.join *)
(* of that directory with a file name.  The lexeme "sections/" is the      *)
(* directory with its separator.                                           *)
(***************************************************************************)
DirName(path) == <<Head(path)>>

PathJoin(dir, file_name) == dir \o file_name

\* mutant: the counter is left out of the candidate name
CandidateName_Same(base_filename, counter) == base_filename \o <<".tex">>

(***************************************************************************)
(* server.py 126-138: the candidate names of create_tailored_section and   *)
(* its probing loop; the result is the first candidate the store does not  *)
(* hold.                                                                   *)
(***************************************************************************)
CandidateName(base_filename, counter) ==
    IF counter = 0 THEN base_filename \o <<".tex">>
    ELSE base_filename \o <<"_", ToString(counter)>> \o <<".tex">>

\* mutant: the first candidate is taken without probing
ProbeFrom_NoProbe(st, target_dir, base_filename, counter) ==
    CandidateName(base_filename, counter)

RECURSIVE ProbeFrom(_, _, _, _)
ProbeFrom(st, target_dir, base_filename, counter) ==
    LET file_name == CandidateName(base_filename, counter)
    IN  IF Exists(st, PathJoin(target_dir, file_name))
        THEN ProbeFrom(st, target_dir, base_filename, counter + 1)
        ELSE file_name

(***************************************************************************)
(* The master documents and the inputs the model draws from.               *)
(***************************************************************************)
Canonical(s) == <<"\\input", "{", "sections/">> \o s \o <<".tex", "}">>

ExpDotSpace ==
    <<"\\input", " ", "{", "./", "sections/", "experience", ".tex", " ", "}">>

ExpCaseTailored ==
    <<"\\INPUT", "{", "sections/", "EXPERIENCE", "-", "old", "_", "1",
      ".tex", "}">>

ExpTwice == Canonical(<<"experience">>) \o <<"%">> \o ExpDotSpace

Doc(e, s) ==
    <<"\\begin">> \o Canonical(<<"heading">>) \o Canonical(<<"education">>)
      \o e \o <<"text">> \o Canonical(<<"additional_", "experience">>)
      \o s \o <<"\\end">>

CanonicalDoc == Doc(Canonical(<<"experience">>), Canonical(<<"skills">>))

InitDocs ==
    { Doc(e, Canonical(<<"skills">>)) :
        e \in {Canonical(<<"experience">>), ExpDotSpace, ExpCaseTailored,
               ExpTwice, << >>} }
      \cup { Doc(Canonical(<<"experience">>), << >>) }

FixedNames ==
    { <<"experience", ".tex">>,
      <<"experience", "-", "acme", ".tex">>,
      <<"experience", "-", "acme", " ", "swe", ".tex">>,
      <<"experience", "-", "acme", "\\1", ".tex">>,
      <<"skills", "-", "acme", ".tex">>,
      <<"bogus_section", "-", "x", ".tex">> }

WriterInputs ==
    { [section |-> <<"experience">>, slug |-> <<"acme">>, content |-> <<"C1">>],
      [section |-> <<"experience">>, slug |-> <<"acme">>, content |-> <<"C2">>],
      [section |-> <<"experience">>, slug |-> <<"acme", " ", "swe">>,
       content |-> <<"C1">>],
      [section |-> <<"skills">>, slug |-> <<"acme">>, content |-> <<"C2">>] }

CanonicalNames == { s \o <<".tex">> : s \in Registered }

Returned == { r.filename : r \in created }

RECURSIVE SeqsUpTo(_, _)
SeqsUpTo(S, n) ==
    IF n = 0 THEN { << >> }
    ELSE LET shorter == SeqsUpTo(S, n - 1)
         IN  shorter \cup { Append(q, x) : q \in shorter, x \in S }

(***************************************************************************)
(* A tool call in flight and the result of the last completed call.  The   *)
(* result keeps the store the call started from (pre), the writes the call *)
(* made, and the file name when the call was a re-point of one file name.  *)
(***************************************************************************)
NoRequest ==
    [tool |-> "none", filenames |-> << >>, section |-> << >>,
     slug |-> << >>, content |-> << >>, faults |-> {}]

NoResponse ==
    [tool |-> "none", status |-> "none", err |-> << >>, file_path |-> << >>,
     filename |-> << >>, pre |-> << >>, writes |-> << >>, single |-> << >>,
     value |-> << >>]

(***************************************************************************)
(* Tool calls that run concurrently (independent agent sessions on one     *)
(* project): each caller's position in its handler and the handler's local *)
(* variables.  The calls of the sequential specifications do not use them. *)
(***************************************************************************)
Callers == {"a", "b"}

IdleCall ==
    [pc |-> "idle", tool |-> "none", filenames |-> << >>, section |-> << >>,
     slug |-> << >>, content |-> << >>, file_name |-> << >>,
     full_path |-> << >>, counter |-> 0, text |-> << >>, status |-> "none",
     err |-> << >>, wrote |-> FALSE]

NoCalls == [c \in Callers |-> IdleCall]

(***************************************************************************)
(* core.py 22-53: an OverleafClient object used directly.  Its ProjectIO   *)
(* holds the file tree it last fetched (refresh re-creates it); hist is    *)
(* the last operations made on the object, oldest first.                   *)
(***************************************************************************)
NoClient == [tree |-> {}, hist |-> << >>]

InitStore(doc) ==
    [p \in {CV_MAIN_TEX_PATH} \cup {CV_SECTIONS_PATHS[n] : n \in Registered} |->
        IF p = CV_MAIN_TEX_PATH THEN doc ELSE <<"orig">> \o p]

InitRepoint ==
    /\ \E d \in InitDocs : store = InitStore(d)
    /\ request = NoRequest
    /\ response = NoResponse
    /\ created = {}
    /\ ncreated = 0
    /\ calls = NoCalls
    /\ client = NoClient

Init ==
    /\ store = InitStore(CanonicalDoc)
    /\ request = NoRequest
    /\ response = NoResponse
    /\ created = {}
    /\ ncreated = 0
    /\ calls = NoCalls
    /\ client = NoClient

(***************************************************************************)
(* The agent runtime invokes a tool: the call is in flight until its       *)
(* handler has run.                                                        *)
(***************************************************************************)
CallUpdate(fs) ==
    /\ request = NoRequest
    /\ request' = [NoRequest EXCEPT !.tool = "update", !.filenames = fs]
    /\ UNCHANGED <<store, response, created, ncreated, calls, client>>

CallCreate(w) ==
    /\ request = NoRequest
    /\ ncreated < MaxFiles
    /\ request' = [NoRequest EXCEPT !.tool = "create", !.section = w.section,
                                    !.slug = w.slug, !.content = w.content]
    /\ UNCHANGED <<store, response, created, ncreated, calls, client>>

\* mutant: the text read is kept as a backup file next to the fragments
WriteBack_Backup(st, main_tex_path, original_content, r) ==
    IF r.err # << >>
    THEN [status |-> "error", err |-> r.err, store |-> st, writes |-> << >>]
    ELSE IF r.text # original_content
    THEN [status |-> "success", err |-> << >>,
          store |-> Write(Write(st, <<"sections/", "main", ".bak">>,
                                original_content),
                          main_tex_path, r.text),
          writes |-> << <<main_tex_path, r.text>> >>]
    ELSE [status |-> "no_changes", err |-> << >>, store |-> st,
          writes |-> << >>]

\* mutant: the write is refused when the document is no longer the text read
WriteBack_VersionCheck(st, main_tex_path, original_content, r) ==
    IF r.err # << >>
    THEN [status |-> "error", err |-> r.err, store |-> st, writes |-> << >>]
    ELSE IF st[main_tex_path] # original_content
    THEN [status |-> "error", err |-> <<"conflict">>, store |-> st,
          writes |-> << >>]
    ELSE IF r.text # original_content
    THEN [status |-> "success", err |-> << >>,
          store |-> Write(st, main_tex_path, r.text),
          writes |-> << <<main_tex_path, r.text>> >>]
    ELSE [status |-> "no_changes", err |-> << >>, store |-> st,
          writes |-> << >>]

(***************************************************************************)
(* server.py 211-227: what update_main_tex_with_new_sections does with the *)
(* outcome r of its loop: the error is raised before any write; the text   *)
(* is written back, once and whole, only when it differs from the text     *)
(* read.                                                                   *)
(***************************************************************************)
WriteBack(st, main_tex_path, original_content, r) ==
    IF r.err # << >>
    THEN [status |-> "error", err |-> r.err, store |-> st, writes |-> << >>]
    ELSE IF r.text # original_content
    THEN [status |-> "success", err |-> << >>,
          store |-> Write(st, main_tex_path, r.text),
          writes |-> << <<main_tex_path, r.text>> >>]
    ELSE [status |-> "no_changes", err |-> << >>, store |-> st,
          writes |-> << >>]

\* mutant: the text is written back before the error is raised
UpdateResult_PartialWrite(st, new_section_filenames) ==
    LET r == RepointLoop(Main(st), new_section_filenames)
    IN  IF r.err # << >>
        THEN [status |-> "error", err |-> r.err,
              store |-> Write(st, CV_MAIN_TEX_PATH, r.text),
              writes |-> << <<CV_MAIN_TEX_PATH, r.text>> >>]
        ELSE IF r.text # Main(st)
        THEN [status |-> "success", err |-> << >>,
              store |-> Write(st, CV_MAIN_TEX_PATH, r.text),
              writes |-> << <<CV_MAIN_TEX_PATH, r.text>> >>]
        ELSE [status |-> "no_changes", err |-> << >>, store |-> st,
              writes |-> << >>]

\* mutant: the text is written back whether or not it changed
UpdateResult_AlwaysWrite(st, new_section_filenames) ==
    LET r == RepointLoop(Main(st), new_section_filenames)
    IN  IF r.err # << >>
        THEN [status |-> "error", err |-> r.err, store |-> st,
              writes |-> << >>]
        ELSE [status |-> "success", err |-> << >>,
              store |-> Write(st, CV_MAIN_TEX_PATH, r.text),
              writes |-> << <<CV_MAIN_TEX_PATH, r.text>> >>]

\* mutant: an entry naming a file the project does not hold is refused
UpdateResult_ChecksFile(st, new_section_filenames) ==
    IF \E k \in 1..Len(new_section_filenames) :
          /\ BaseSection(new_section_filenames[k]) \in Registered
          /\ ~Exists(st, <<"sections/">> \o new_section_filenames[k])
    THEN [status |-> "error", err |-> <<"missing">>, store |-> st,
          writes |-> << >>]
    ELSE WriteBack(st, CV_MAIN_TEX_PATH, Read(st, CV_MAIN_TEX_PATH),
                   RepointLoop(Read(st, CV_MAIN_TEX_PATH),
                               new_section_filenames))

(***************************************************************************)
(* server.py 159-231: update_main_tex_with_new_sections.                   *)
(***************************************************************************)
UpdateResult(st, new_section_filenames) ==
    WriteBack(st, CV_MAIN_TEX_PATH, Read(st, CV_MAIN_TEX_PATH),
              RepointLoop(Read(st, CV_MAIN_TEX_PATH), new_section_filenames))

UpdateMainTex ==
    /\ request.tool = "update"
    /\ \E u \in {UpdateResult(store, request.filenames)} :
         /\ store' = u.store
         /\ response' = [NoResponse EXCEPT
                           !.tool = "update",
                           !.status = u.status,
                           !.err = u.err,
                           !.pre = store,
                           !.writes = u.writes,
                           !.single = IF Len(request.filenames) = 1
                                      THEN request.filenames[1] ELSE << >>]
    /\ request' = NoRequest
    /\ UNCHANGED <<created, ncreated, calls, client>>

(***************************************************************************)
(* server.py 100-156: create_tailored_section.                             *)
(***************************************************************************)
CreateTailoredSection ==
    LET cv_section == request.section
        company_role_slug == request.slug
        new_content == request.content
        target_dir == DirName(CV_SECTIONS_PATHS[cv_section])
        base_filename == cv_section \o <<"-">> \o company_role_slug
        file_name == ProbeFrom(store, target_dir, base_filename, 0)
        full_path == PathJoin(target_dir, file_name)
    IN  /\ request.tool = "create"
        /\ store' = Write(store, full_path, new_content)
        /\ response' = [NoResponse EXCEPT
                      !.tool = "create",
                      !.status = "success",
                      !.file_path = full_path,
                      !.filename = file_name,
                      !.pre = store,
                      !.writes = << <<full_path, new_content>> >>]
        /\ request' = NoRequest
        /\ created' = created \cup
              {[section |-> cv_section, slug |-> company_role_slug,
                content |-> new_content, file_path |-> full_path,
                filename |-> file_name]}
        /\ ncreated' = ncreated + 1
        /\ UNCHANGED <<calls, client>>

FilenameLists == SeqsUpTo(FixedNames, MaxList)

NextRepoint ==
    \/ \E fs \in FilenameLists : CallUpdate(fs)
    \/ UpdateMainTex

SpecRepoint == InitRepoint /\ [][NextRepoint]_vars

Next ==
    \/ \E f \in CanonicalNames \cup Returned : CallUpdate(<<f>>)
    \/ UpdateMainTex
    \/ \E w \in WriterInputs : CallCreate(w)
    \/ CreateTailoredSection

Spec == Init /\ [][Next]_vars


(***************************************************************************)
(* Vocabulary of the properties.  A directive for section s is a piece of  *)
(* text pattern_to_find matches for s.                                     *)
(***************************************************************************)
RECURSIVE DirectivesFrom(_, _, _)
DirectivesFrom(s, t, i) ==
    LET j == NextMatch(s, t, i)
    IN  IF j = 0 THEN << >>
        ELSE LET m == MatchAt(s, t, j)
             IN  <<SubSeq(t, j, m.end)>> \o DirectivesFrom(s, t, m.end + 1)

\* the directives for s in text t, in order
Directives(s, t) == DirectivesFrom(s, t, 1)

\* the pieces of t between (before, after) its directives for s, in order
RECURSIVE SegmentsFrom(_, _, _)
SegmentsFrom(s, t, i) ==
    LET j == NextMatch(s, t, i)
    IN  IF j = 0 THEN <<SubSeq(t, i, Len(t))>>
        ELSE <<SubSeq(t, i, j - 1)>>
               \o SegmentsFrom(s, t, MatchAt(s, t, j).end + 1)

Segments(s, t) == SegmentsFrom(s, t, 1)

\* seg_1 \o x \o seg_2 \o x ... \o seg_n
RECURSIVE JoinWith(_, _)
JoinWith(segs, x) ==
    IF Len(segs) = 1 THEN segs[1]
    ELSE segs[1] \o x \o JoinWith(Tail(segs), x)

OccursAt(t, j, seg) ==
    /\ j + Len(seg) - 1 <= Len(t)
    /\ \A k \in 1..Len(seg) : t[j + k - 1] = seg[k]

\* t is seg_1, some text, seg_2, some text, ..., seg_n
RECURSIVE FitsFrom(_, _, _, _)
FitsFrom(t, i, segs, k) ==
    IF k > Len(segs) THEN i = Len(t) + 1
    ELSE \E j \in (IF k = 1 THEN {1} ELSE i..(Len(t) + 1)) :
            /\ OccursAt(t, j, segs[k])
            /\ FitsFrom(t, j + Len(segs[k]), segs, k + 1)

KeepsOutside(s, before, after) == FitsFrom(after, 1, Segments(s, before), 1)

\* the path a directive names: its text without \input, braces, white
\* space and the leading "./"
DirectivePath(d) ==
    SelectSeq(d, LAMBDA a : /\ ~IsSpace(a)
                            /\ a \notin {"{", "}", "./"}
                            /\ Lower(a) # "\\input")

OneEach(t) == \A s \in Registered : Len(Directives(s, t)) = 1

Done == request = NoRequest

\* the last completed call was update_main_tex_with_new_sections([f]),
\* f deriving a registered section
RepointedOne ==
    /\ Done
    /\ response.tool = "update"
    /\ response.single # << >>
    /\ BaseSection(response.single) \in Registered

(***************************************************************************)
(* C1: when the master document holds exactly one directive for every      *)
(* registered section and update_main_tex_with_new_sections([f]), f        *)
(* deriving the registered section s, returns successfully, the document   *)
(* still holds exactly one directive for every registered section and the  *)
(* directive for s names sections/f.                                       *)
(***************************************************************************)
C1_OneDirectivePerSection ==
    (/\ RepointedOne
     /\ response.status \in {"success", "no_changes"}
     /\ OneEach(Main(response.pre)))
    => /\ OneEach(Main(store))
       /\ DirectivePath(Directives(BaseSection(response.single), Main(store))[1])
            = <<"sections/">> \o response.single

(***************************************************************************)
(* C2: from a master document with exactly one directive for s that does   *)
(* not read \input{sections/f}, update_main_tex_with_new_sections([f])     *)
(* called twice in a row reports a change and one write the first time, no *)
(* change and no write the second time, and after each call exactly one    *)
(* directive for s exists.  Stated on the step of the second call.         *)
(***************************************************************************)
C2_SecondCallOf ==
    /\ request.tool = "update"
    /\ response.tool = "update"
    /\ response.single # << >>
    /\ request.filenames = <<response.single>>
    /\ BaseSection(response.single) \in Registered
    /\ LET s == BaseSection(response.single)
           d == Directives(s, Main(response.pre))
       IN  Len(d) = 1 /\ d[1] # ReplacementString(response.single)

C2_IdempotentRepoint ==
    [][C2_SecondCallOf =>
         LET s == BaseSection(response.single)
         IN  /\ response.status = "success"
             /\ Len(response.writes) = 1
             /\ Len(Directives(s, Main(store))) = 1
             /\ response'.status = "no_changes"
             /\ response'.writes = << >>
             /\ Len(Directives(s, Main(store'))) = 1]_vars

(***************************************************************************)
(* C3: update_main_tex_with_new_sections([f]), f deriving the registered   *)
(* section s, leaves the directives of every other registered section and  *)
(* all text of the master document outside its directives for s unchanged. *)
(***************************************************************************)
C3_Isolation ==
    RepointedOne =>
        LET s == BaseSection(response.single)
            old == Main(response.pre)
            new == Main(store)
        IN  /\ KeepsOutside(s, old, new)
            /\ \A other \in Registered \ {s} :
                  Directives(other, new) = Directives(other, old)

C3_Witness ==
    /\ RepointedOne
    /\ response.status = "success"
    /\ response.single = <<"skills", "-", "acme", ".tex">>
    /\ Directives(<<"experience">>, Main(store)) = <<ExpCaseTailored>>
    /\ Directives(<<"skills">>, Main(store))
         = <<ReplacementString(response.single)>>

(***************************************************************************)
(* C8: the directive a re-point emits is exactly \input{sections/f},       *)
(* whatever the form of the directive it replaces: after a changing        *)
(* update_main_tex_with_new_sections([f]) the master document is the old   *)
(* one with every directive for s replaced by that text.                   *)
(***************************************************************************)
C8_NormalizedDirective ==
    (RepointedOne /\ response.status = "success") =>
        Main(store) = JoinWith(Segments(BaseSection(response.single),
                                        Main(response.pre)),
                               ReplacementString(response.single))

(***************************************************************************)
(* C4: from a master document holding the canonical includes, after any    *)
(* sequence of create_tailored_section calls and of re-points to file      *)
(* names those calls returned or to canonical file names, a re-point       *)
(* never fails for want of an \input to replace.  (Spec draws the file     *)
(* names of its re-points from exactly these.)                             *)
(***************************************************************************)
C4_RetargetFindsInclude ==
    (Done /\ response.tool = "update") => response.status # "error"

(***************************************************************************)
(* C5: when some entry of the list derives a registered section that has   *)
(* no directive in the working text (the text as the earlier entries left  *)
(* it), the call fails with an error naming that section and writes        *)
(* nothing: the store is as it was.                                        *)
(***************************************************************************)
\* the working text entry k of fs meets: the earlier entries applied
WorkingText(st, fs, k) == RepointLoop(Main(st), SubSeq(fs, 1, k - 1))

Unmatched(st, fs, k) ==
    /\ BaseSection(fs[k]) \in Registered
    /\ \E w \in {WorkingText(st, fs, k)} :
          /\ w.err = << >>
          /\ Directives(BaseSection(fs[k]), w.text) = << >>

C5_FailFastNoWrite ==
    [][(request.tool = "update") =>
         \A k \in 1..Len(request.filenames) :
            Unmatched(store, request.filenames, k) =>
               /\ response'.status = "error"
               /\ response'.err = BaseSection(request.filenames[k])
               /\ response'.writes = << >>
               /\ store' = store]_vars

C5_Witness ==
    /\ Done
    /\ response.tool = "update"
    /\ response.status = "error"
    /\ response.err = <<"skills">>
    /\ Directives(<<"experience">>, Main(store)) # << >>
    /\ Directives(<<"skills">>, Main(store)) = << >>
    /\ store = response.pre

(***************************************************************************)
(* C6: an entry whose derived name is not registered is skipped without    *)
(* error: a list of such entries only gives no_changes and no write, and   *)
(* any list gives what the list of its registered entries gives.           *)
(***************************************************************************)
RegisteredEntries(fs) ==
    SelectSeq(fs, LAMBDA f : BaseSection(f) \in Registered)

C6_UnregisteredSkipped ==
    [][(request.tool = "update") =>
         \A reg \in {RegisteredEntries(request.filenames)} :
            /\ (reg = << >>) =>
                  /\ response'.status = "no_changes"
                  /\ response'.writes = << >>
                  /\ store' = store
            /\ \A u \in {UpdateResult(store, reg)} :
                  /\ response'.status = u.status
                  /\ response'.err = u.err
                  /\ store' = u.store]_vars

C6_Witness ==
    /\ Done
    /\ response.tool = "update"
    /\ response.status = "no_changes"
    /\ response.single = <<"bogus_section", "-", "x", ".tex">>
    /\ store = response.pre

(***************************************************************************)
(* C7: a call makes at most one write, to the master document path and of  *)
(* its whole text; it writes exactly when the text after all entries       *)
(* differs from the text read, and reports a change exactly when it wrote; *)
(* the empty list gives no change and no write.                            *)
(***************************************************************************)
C7_OneWriteIffChanged ==
    [][(request.tool = "update") =>
         \A final \in {RepointLoop(Main(store), request.filenames)} :
            LET wrote == response'.writes # << >>
            IN  /\ Len(response'.writes) <= 1
                /\ wrote =>
                     /\ response'.writes[1][1] = CV_MAIN_TEX_PATH
                     /\ response'.writes[1][2] = final.text
                     /\ store' = [store EXCEPT ![CV_MAIN_TEX_PATH] = final.text]
                /\ ~wrote => store' = store
                /\ final.err = << >> => (wrote <=> final.text # Main(store))
                /\ wrote <=> response'.status = "success"
                /\ request.filenames = << >> =>
                      ~wrote /\ response'.status = "no_changes"]_vars

C7_Witness ==
    /\ Done
    /\ response.tool = "update"
    /\ response.status = "success"
    /\ Len(response.writes) = 1
    /\ response.single = << >>
    /\ Main(store) # Main(response.pre)

(***************************************************************************)
(* C9: the create_tailored_section calls made so far returned pairwise     *)
(* distinct paths, and every returned path holds the content passed to the *)
(* call that returned it.                                                  *)
(***************************************************************************)
C9_DistinctPaths ==
    /\ Cardinality({r.file_path : r \in created}) = ncreated
    /\ \A r \in created :
          r.file_path \in DOMAIN store /\ store[r.file_path] = r.content

C9_Witness ==
    \E r1, r2 \in created :
       /\ r1.section = r2.section
       /\ r1.slug = r2.slug
       /\ r1.content # r2.content
       /\ r1.file_path # r2.file_path
       /\ store[r1.file_path] = r1.content
       /\ store[r2.file_path] = r2.content

(***************************************************************************)
(* C10: a create_tailored_section call changes the content of no file the  *)
(* store held before the call; the one file it writes did not exist then.  *)
(***************************************************************************)
C10_NonDestructive ==
    (Done /\ response.tool = "create") =>
        /\ \A p \in DOMAIN response.pre :
              p \in DOMAIN store /\ store[p] = response.pre[p]
        /\ Len(response.writes) = 1
        /\ response.writes[1][1] \notin DOMAIN response.pre
        /\ DOMAIN store = DOMAIN response.pre \cup {response.writes[1][1]}

C10_Witness ==
    /\ Done
    /\ response.tool = "create"
    /\ response.filename = <<"experience", "-", "acme", "_", "1", ".tex">>
    /\ <<"sections/", "experience", "-", "acme", ".tex">>
         \in DOMAIN response.pre
    /\ store[<<"sections/", "experience", "-", "acme", ".tex">>]
         # store[response.file_path]

(***************************************************************************)
(* The readers: get_full_resume and read_cv_section.                       *)
(***************************************************************************)
\* config.py 20-26: the registry in the order its dictionary is iterated
SectionOrder ==
    << <<"heading">>, <<"education">>, <<"experience">>,
       <<"additional_", "experience">>, <<"skills">> >>

\* mutant: the read serves the content the project started with
ReadOutcome_Cached(st, path, faults) ==
    IF path \notin DOMAIN st
    THEN [ok |-> FALSE, err |-> <<"FileNotFoundError">>, value |-> << >>]
    ELSE IF path \in faults
    THEN [ok |-> FALSE, err |-> <<"OSError">>, value |-> << >>]
    ELSE [ok |-> TRUE, err |-> << >>, value |-> <<"orig">> \o path]

(***************************************************************************)
(* core.py 69-71 as a handler sees it: client.read returns the content of  *)
(* the path or raises, for a missing file or for any failure of the store  *)
(* (the paths in faults are those whose read fails in this call).          *)
(***************************************************************************)
ReadOutcome(st, path, faults) ==
    IF ~Exists(st, path)
    THEN [ok |-> FALSE, err |-> <<"FileNotFoundError">>, value |-> << >>]
    ELSE IF path \in faults
    THEN [ok |-> FALSE, err |-> <<"OSError">>, value |-> << >>]
    ELSE [ok |-> TRUE, err |-> << >>, value |-> Read(st, path)]

\* resume_data[section] = content
SetItem(resume_data, section, content) ==
    [k \in DOMAIN resume_data \cup {section} |->
        IF k = section THEN content ELSE resume_data[k]]

\* mutant: a section that cannot be read is left out of the mapping
RECURSIVE GetFullLoop_Skip(_, _, _, _)
GetFullLoop_Skip(st, faults, sections, resume_data) ==
    IF sections = << >>
    THEN [status |-> "success", err |-> << >>, value |-> resume_data]
    ELSE IF ~ReadOutcome(st, CV_SECTIONS_PATHS[Head(sections)], faults).ok
    THEN GetFullLoop_Skip(st, faults, Tail(sections), resume_data)
    ELSE GetFullLoop_Skip(st, faults, Tail(sections),
            SetItem(resume_data, Head(sections),
                    ReadOutcome(st, CV_SECTIONS_PATHS[Head(sections)],
                                faults).value))

(***************************************************************************)
(* server.py 54-65: the loop of get_full_resume over the registry.  The    *)
(* first read that raises ends the call with a ToolError naming its        *)
(* section; resume_data is returned only after the last read.              *)
(***************************************************************************)
RECURSIVE GetFullLoop(_, _, _, _)
GetFullLoop(st, faults, sections, resume_data) ==
    IF sections = << >>
    THEN [status |-> "success", err |-> << >>, value |-> resume_data]
    ELSE IF ~ReadOutcome(st, CV_SECTIONS_PATHS[Head(sections)], faults).ok
    THEN [status |-> "error", err |-> Head(sections), value |-> << >>]
    ELSE GetFullLoop(st, faults, Tail(sections),
            SetItem(resume_data, Head(sections),
                    ReadOutcome(st, CV_SECTIONS_PATHS[Head(sections)],
                                faults).value))

\* server.py 38-65: get_full_resume
GetFullResult(st, faults) == GetFullLoop(st, faults, SectionOrder, << >>)

\* server.py 70: the values the cv_section parameter of read_cv_section takes
ReadCvSectionLiteral ==
    { <<"education">>, <<"experience">>, <<"additional_", "experience">>,
      <<"skills">> }

\* server.py 295: _get_client takes exactly one positional argument,
\* project_name; any other call raises TypeError
GetClient(args) ==
    IF Len(args) = 1 THEN [ok |-> TRUE, err |-> << >>]
    ELSE [ok |-> FALSE, err |-> <<"TypeError">>]

(***************************************************************************)
(* server.py 68-85: read_cv_section.  The client is obtained inside the    *)
(* try block by _get_client() with no argument (line 80); every exception  *)
(* of the block becomes a ToolError.                                       *)
(***************************************************************************)
ReadCvSectionResult(st, faults, cv_section) ==
    IF cv_section \notin ReadCvSectionLiteral
    THEN [status |-> "error", err |-> <<"ValidationError">>, value |-> << >>]
    ELSE IF ~GetClient(<< >>).ok
    THEN [status |-> "error", err |-> GetClient(<< >>).err, value |-> << >>]
    ELSE IF ~ReadOutcome(st, CV_SECTIONS_PATHS[cv_section], faults).ok
    THEN [status |-> "error",
          err |-> ReadOutcome(st, CV_SECTIONS_PATHS[cv_section], faults).err,
          value |-> << >>]
    ELSE [status |-> "success", err |-> << >>,
          value |-> ReadOutcome(st, CV_SECTIONS_PATHS[cv_section],
                                faults).value]

\* core.py 88-90: remove
Remove(st, path) == [p \in DOMAIN st \ {path} |-> st[p]]

\* the section files other sessions edit or delete, and the read failures
EditedPaths ==
    { CV_SECTIONS_PATHS[<<"experience">>], CV_SECTIONS_PATHS[<<"skills">>] }

FaultSets == { {}, {CV_SECTIONS_PATHS[<<"education">>]} }

CallGetFull(faults) ==
    /\ request = NoRequest
    /\ request' = [NoRequest EXCEPT !.tool = "full", !.faults = faults]
    /\ UNCHANGED <<store, response, created, ncreated, calls, client>>

GetFullResume ==
    /\ request.tool = "full"
    /\ \E u \in {GetFullResult(store, request.faults)} :
         response' = [NoResponse EXCEPT !.tool = "full", !.status = u.status,
                                        !.err = u.err, !.value = u.value,
                                        !.pre = store]
    /\ request' = NoRequest
    /\ UNCHANGED <<store, created, ncreated, calls, client>>

CallRead(cv_section, faults) ==
    /\ request = NoRequest
    /\ request' = [NoRequest EXCEPT !.tool = "read", !.section = cv_section,
                                    !.faults = faults]
    /\ UNCHANGED <<store, response, created, ncreated, calls, client>>

ReadCvSection ==
    /\ request.tool = "read"
    /\ \E u \in {ReadCvSectionResult(store, request.faults, request.section)} :
         response' = [NoResponse EXCEPT !.tool = "read", !.status = u.status,
                                        !.err = u.err, !.value = u.value,
                                        !.pre = store]
    /\ request' = NoRequest
    /\ UNCHANGED <<store, created, ncreated, calls, client>>

\* another session writes or removes a section file between two calls
ExternalWrite(path) ==
    /\ request = NoRequest
    /\ store' = Write(store, path, <<"edited">> \o path)
    /\ UNCHANGED <<request, response, created, ncreated, calls, client>>

ExternalRemove(path) ==
    /\ request = NoRequest
    /\ Exists(store, path)
    /\ store' = Remove(store, path)
    /\ UNCHANGED <<request, response, created, ncreated, calls, client>>

NextRead ==
    \/ \E faults \in FaultSets : CallGetFull(faults)
    \/ GetFullResume
    \/ \E cv_section \in Registered, faults \in FaultSets :
          CallRead(cv_section, faults)
    \/ ReadCvSection
    \/ \E path \in EditedPaths : ExternalWrite(path)
    \/ \E path \in EditedPaths : ExternalRemove(path)

SpecRead == Init /\ [][NextRead]_vars

\* the registered sections whose read fails in store st with faults
Unreadable(st, faults) ==
    { s \in Registered :
        CV_SECTIONS_PATHS[s] \notin DOMAIN st \/ CV_SECTIONS_PATHS[s] \in faults }

(***************************************************************************)
(* C11: when the read of some registered section's canonical file fails    *)
(* (the file is missing or the store raises), get_full_resume fails with   *)
(* an error naming a section whose read fails and returns no mapping; a    *)
(* mapping it does return has every registered name as a key.              *)
(***************************************************************************)
C11_FailClosed ==
    [][(request.tool = "full") =>
         /\ Unreadable(store, request.faults) # {} =>
               /\ response'.status = "error"
               /\ response'.err \in Unreadable(store, request.faults)
               /\ DOMAIN response'.value = {}
         /\ response'.status = "success" =>
               DOMAIN response'.value = Registered]_vars

C11_Witness ==
    /\ Done
    /\ response.tool = "full"
    /\ response.status = "error"
    /\ response.err = <<"skills">>
    /\ CV_SECTIONS_PATHS[<<"skills">>] \notin DOMAIN response.pre
    /\ CV_SECTIONS_PATHS[<<"experience">>] \in DOMAIN response.pre
    /\ DOMAIN response.value = {}

(***************************************************************************)
(* C12: when every canonical file can be read, get_full_resume returns a   *)
(* mapping whose keys are exactly the registered names and whose value for *)
(* each name is the content its canonical path has in the store when the   *)
(* call runs, whatever earlier calls returned.                             *)
(***************************************************************************)
C12_FreshMapping ==
    [][(request.tool = "full" /\ Unreadable(store, request.faults) = {}) =>
         /\ response'.status = "success"
         /\ DOMAIN response'.value = Registered
         /\ \A s \in Registered :
               response'.value[s] = store[CV_SECTIONS_PATHS[s]]]_vars

C12_Witness ==
    /\ Done
    /\ response.tool = "full"
    /\ response.status = "success"
    /\ response.value[<<"experience">>]
         = <<"edited">> \o CV_SECTIONS_PATHS[<<"experience">>]
    /\ response.value[<<"skills">>] = <<"orig">> \o CV_SECTIONS_PATHS[<<"skills">>]

(***************************************************************************)
(* C13: read_cv_section(name), name registered and its canonical file      *)
(* present and readable, returns the content of that file.                 *)
(***************************************************************************)
C13_ReadReturnsContent ==
    [][(/\ request.tool = "read"
        /\ request.section \in Registered
        /\ request.section \notin Unreadable(store, request.faults)) =>
         /\ response'.status = "success"
         /\ response'.value = store[CV_SECTIONS_PATHS[request.section]]]_vars

(***************************************************************************)
(* create_tailored_section called with slugs of every kind: server.py      *)
(* 100-156 passes company_role_slug, any string, into the file name.  The  *)
(* lexeme "/" is the path separator and "../" a step to the parent         *)
(* directory.                                                              *)
(***************************************************************************)
SlugInputs ==
    { [section |-> <<"experience">>, slug |-> sl, content |-> <<"C1">>] :
        sl \in { <<"acme">>, << >>, <<"acme", "/", "swe">>,
                 <<"x", "/", "../", "../", "main">>, <<"../", "old">> } }
      \cup { [section |-> <<"skills">>, slug |-> << >>, content |-> <<"C2">>],
             [section |-> <<"experience">>, slug |-> <<"acme">>,
              content |-> <<"C2">>] }

NextSlug ==
    \/ \E w \in SlugInputs : CallCreate(w)
    \/ CreateTailoredSection

SpecSlug == Init /\ [][NextSlug]_vars

IsSeparator(a) == a \in {"/", "../", "./", "sections/"}

\* the last component of a path: what follows its last separator
RECURSIVE Basename(_)
Basename(path) ==
    IF \A k \in 1..Len(path) : ~IsSeparator(path[k]) THEN path
    ELSE Basename(Tail(path))

\* the directory of the canonical path of section s, with its separator
FragmentsDir(s) == <<CV_SECTIONS_PATHS[s][1]>>

(***************************************************************************)
(* C14: every file create_tailored_section writes has a path of the shape  *)
(* fragments directory, section name, "-", a non-empty token without path  *)
(* separator (with its optional _n), ".tex": a slug that is empty or holds *)
(* a separator or a traversal sequence is rejected or sanitized.           *)
(***************************************************************************)
C14_SlugHardened ==
    \A r \in created :
       LET p == r.file_path
           n == Len(FragmentsDir(r.section)) + Len(r.section) + 1
       IN  /\ Len(p) > n + 1
           /\ SubSeq(p, 1, n) = FragmentsDir(r.section) \o r.section \o <<"-">>
           /\ p[Len(p)] = ".tex"
           /\ \A k \in (n + 1)..(Len(p) - 1) : ~IsSeparator(p[k])

(***************************************************************************)
(* C19: create_tailored_section(s, slug, c) assigns the path               *)
(* dir/s-slug.tex when the store does not hold it, otherwise               *)
(* dir/s-slug_n.tex for the least n >= 1 whose path the store does not     *)
(* hold; the returned filename is the last component of the returned path. *)
(***************************************************************************)
NthPath(r, n) ==
    FragmentsDir(r.section) \o r.section \o <<"-">> \o r.slug
      \o (IF n = 0 THEN << >> ELSE <<"_", ToString(n)>>) \o <<".tex">>

C19_Naming ==
    (Done /\ response.tool = "create") =>
        \E r \in created :
           /\ r.file_path = response.file_path
           /\ r.filename = response.filename
           /\ \E n \in 0..ncreated :
                 /\ r.file_path = NthPath(r, n)
                 /\ r.file_path \notin DOMAIN response.pre
                 /\ \A m \in 0..(n - 1) : NthPath(r, m) \in DOMAIN response.pre
           /\ response.filename = Basename(response.file_path)

(***************************************************************************)
(* The store client on its own (core.py), as tests/test_overleafclient.py  *)
(* drives it.  Here a text is a sequence of Unicode code points and the    *)
(* store holds the bytes written.                                          *)
(***************************************************************************)
\* mutant: every character is written as one 7-bit byte
EncodeChar_Ascii(cp) == <<cp % 128>>

\* core.py 81: str.encode("utf-8") of one character
EncodeChar(cp) ==
    IF cp < 128 THEN <<cp>>
    ELSE IF cp < 2048 THEN <<192 + (cp \div 64), 128 + (cp % 64)>>
    ELSE IF cp < 65536
    THEN <<224 + (cp \div 4096), 128 + ((cp \div 64) % 64), 128 + (cp % 64)>>
    ELSE <<240 + (cp \div 262144), 128 + ((cp \div 4096) % 64),
           128 + ((cp \div 64) % 64), 128 + (cp % 64)>>

\* core.py 81: a lone surrogate makes str.encode raise UnicodeEncodeError
Encodable(text) ==
    \A k \in 1..Len(text) : ~(text[k] >= 55296 /\ text[k] <= 57343)

RECURSIVE EncodeUtf8(_)
EncodeUtf8(text) ==
    IF text = << >> THEN << >>
    ELSE EncodeChar(Head(text)) \o EncodeUtf8(Tail(text))

\* the number of bytes of the character that starts with byte b, 0 if none
CharLen(b) ==
    IF b < 128 THEN 1
    ELSE IF b >= 194 /\ b < 224 THEN 2
    ELSE IF b >= 224 /\ b < 240 THEN 3
    ELSE IF b >= 240 /\ b < 245 THEN 4
    ELSE 0

IsContinuation(b) == b >= 128 /\ b < 192

\* core.py 71: bytes.decode("utf-8") raises UnicodeDecodeError on these
RECURSIVE Decodable(_)
Decodable(bytes) ==
    IF bytes = << >> THEN TRUE
    ELSE /\ CharLen(Head(bytes)) > 0
         /\ CharLen(Head(bytes)) <= Len(bytes)
         /\ \A k \in 2..CharLen(Head(bytes)) : IsContinuation(bytes[k])
         /\ Decodable(SubSeq(bytes, CharLen(Head(bytes)) + 1, Len(bytes)))

\* the character in the first n bytes
DecodeChar(bytes, n) ==
    IF n = 1 THEN bytes[1]
    ELSE IF n = 2 THEN (bytes[1] - 192) * 64 + (bytes[2] - 128)
    ELSE IF n = 3
    THEN (bytes[1] - 224) * 4096 + (bytes[2] - 128) * 64 + (bytes[3] - 128)
    ELSE (bytes[1] - 240) * 262144 + (bytes[2] - 128) * 4096
           + (bytes[3] - 128) * 64 + (bytes[4] - 128)

\* core.py 71: bytes.decode("utf-8")
RECURSIVE DecodeUtf8(_)
DecodeUtf8(bytes) ==
    IF bytes = << >> THEN << >>
    ELSE <<DecodeChar(bytes, CharLen(Head(bytes)))>>
           \o DecodeUtf8(SubSeq(bytes, CharLen(Head(bytes)) + 1, Len(bytes)))

\* tests/test_overleafclient.py 20-22: the files the tests work on
CONTENT_FILE_TO_TEST == <<"sections/", "experience", ".tex">>

TEMP_FILE == <<"sections/", "_pytest_temp", ".txt">>

ClientPaths == {CONTENT_FILE_TO_TEST, TEMP_FILE}

\* texts: "A", e-acute and newline, euro sign and an emoji, a lone surrogate
Texts == { <<65>>, <<233, 10>>, <<8364, 128512>>, <<55296>> }

HistEntry(op, path, ok) == [op |-> op, path |-> path, ok |-> ok]

\* the operation just made joins the last operations kept
Remember(hist, entry) ==
    IF Len(hist) = 3 THEN Tail(hist) \o <<entry>> ELSE hist \o <<entry>>

\* mutant: refresh keeps the file tree the client had
RefreshTree_Stale(tree, st) == tree

\* core.py 51-53: a new ProjectIO fetches the file tree of the project
RefreshTree(tree, st) == DOMAIN st

InitClient ==
    /\ store = [p \in {CV_MAIN_TEX_PATH, CONTENT_FILE_TO_TEST} |->
                   EncodeUtf8(<<92, 163>>)]
    /\ request = NoRequest
    /\ response = NoResponse
    /\ created = {}
    /\ ncreated = 0
    /\ calls = NoCalls
    /\ client = [tree |-> {CV_MAIN_TEX_PATH, CONTENT_FILE_TO_TEST},
                 hist |-> << >>]

(***************************************************************************)
(* core.py 77-83: write.  The text is encoded, then the file is opened     *)
(* "wb" and the bytes written: the content of the path is replaced.  The   *)
(* file tree the client holds may or may not learn of a new file (seen).   *)
(***************************************************************************)
ClientWrite(path, data, seen) ==
    /\ IF Encodable(data)
       THEN /\ store' = Write(store, path, EncodeUtf8(data))
            /\ client' = [tree |-> IF seen THEN client.tree \cup {path}
                                   ELSE client.tree,
                          hist |-> Remember(client.hist,
                                            HistEntry("write", path, TRUE))]
            /\ response' = [NoResponse EXCEPT
                              !.tool = "write", !.status = "success",
                              !.file_path = path,
                              !.writes = << <<path, data>> >>]
       ELSE /\ store' = store
            /\ client' = [client EXCEPT
                            !.hist = Remember(client.hist,
                                              HistEntry("write", path, FALSE))]
            /\ response' = [NoResponse EXCEPT
                              !.tool = "write", !.status = "error",
                              !.err = <<"UnicodeEncodeError">>,
                              !.file_path = path]
    /\ UNCHANGED <<request, created, ncreated, calls>>

\* core.py 69-71: read
ClientRead(path) ==
    /\ response' =
         IF ~Exists(store, path)
         THEN [NoResponse EXCEPT !.tool = "read", !.status = "error",
                                 !.err = <<"FileNotFoundError">>,
                                 !.file_path = path]
         ELSE IF ~Decodable(Read(store, path))
         THEN [NoResponse EXCEPT !.tool = "read", !.status = "error",
                                 !.err = <<"UnicodeDecodeError">>,
                                 !.file_path = path]
         ELSE [NoResponse EXCEPT !.tool = "read", !.status = "success",
                                 !.file_path = path,
                                 !.value = DecodeUtf8(Read(store, path))]
    /\ client' = [client EXCEPT
                    !.hist = Remember(client.hist,
                                      HistEntry("read", path, Exists(store, path)))]
    /\ UNCHANGED <<store, request, created, ncreated, calls>>

\* core.py 61-62: exists, answered from the file tree the client holds
ClientExists(path) ==
    /\ response' = [NoResponse EXCEPT !.tool = "exists", !.status = "success",
                                      !.file_path = path,
                                      !.value = path \in client.tree]
    /\ client' = [client EXCEPT
                    !.hist = Remember(client.hist,
                                      HistEntry("exists", path, TRUE))]
    /\ UNCHANGED <<store, request, created, ncreated, calls>>

\* core.py 88-90: remove
ClientRemove(path, seen) ==
    /\ IF Exists(store, path)
       THEN /\ store' = Remove(store, path)
            /\ client' = [tree |-> IF seen THEN client.tree \ {path}
                                   ELSE client.tree,
                          hist |-> Remember(client.hist,
                                            HistEntry("remove", path, TRUE))]
            /\ response' = [NoResponse EXCEPT
                              !.tool = "remove", !.status = "success",
                              !.file_path = path]
       ELSE /\ store' = store
            /\ client' = [client EXCEPT
                            !.hist = Remember(client.hist,
                                              HistEntry("remove", path, FALSE))]
            /\ response' = [NoResponse EXCEPT
                              !.tool = "remove", !.status = "error",
                              !.err = <<"FileNotFoundError">>,
                              !.file_path = path]
    /\ UNCHANGED <<request, created, ncreated, calls>>

\* core.py 51-53: refresh
ClientRefresh ==
    /\ client' = [tree |-> RefreshTree(client.tree, store),
                  hist |-> Remember(client.hist,
                                    HistEntry("refresh", << >>, TRUE))]
    /\ response' = [NoResponse EXCEPT !.tool = "refresh", !.status = "success"]
    /\ UNCHANGED <<store, request, created, ncreated, calls>>

NextClient ==
    \/ \E path \in ClientPaths, data \in Texts, seen \in BOOLEAN :
          ClientWrite(path, data, seen)
    \/ \E path \in ClientPaths : ClientRead(path)
    \/ \E path \in ClientPaths : ClientExists(path)
    \/ \E path \in ClientPaths, seen \in BOOLEAN : ClientRemove(path, seen)
    \/ ClientRefresh

SpecClient == InitClient /\ [][NextClient]_vars

C16_Lifecycle ==
    (response.tool = "exists") =>
        LET h == client.hist
            p == response.file_path
        IN  /\ (Len(h) = 1 /\ p \notin DOMAIN store) => response.value = FALSE
            /\ (/\ Len(h) = 3
                /\ h[1] = HistEntry("write", p, TRUE)
                /\ h[2] = HistEntry("refresh", << >>, TRUE)) =>
                  response.value = TRUE
            /\ (/\ Len(h) = 3
                /\ h[1] = HistEntry("remove", p, TRUE)
                /\ h[2] = HistEntry("refresh", << >>, TRUE)) =>
                  response.value = FALSE

C16_Witness ==
    /\ response.tool = "exists"
    /\ response.file_path = TEMP_FILE
    /\ response.value = FALSE
    /\ Len(client.hist) = 3
    /\ client.hist[1] = HistEntry("remove", TEMP_FILE, TRUE)
    /\ client.hist[2] = HistEntry("refresh", << >>, TRUE)

(***************************************************************************)
(* Tool calls of independent sessions that run at the same time on one     *)
(* project.  A handler is a sequence of calls to the store client; the     *)
(* calls of two handlers interleave.  Each caller makes one tool call.     *)
(***************************************************************************)
RaceWriterInputs ==
    { [section |-> <<"experience">>, slug |-> <<"acme">>, content |-> <<"C1">>],
      [section |-> <<"experience">>, slug |-> <<"acme">>, content |-> <<"C2">>] }

RaceFilenameLists ==
    { << <<"experience", "-", "acme", ".tex">> >>,
      << <<"skills", "-", "acme", ".tex">> >> }

\* server.py 116-131: create_tailored_section up to its first probe
StartCreate(c, w) ==
    /\ calls[c].pc = "idle"
    /\ calls' = [calls EXCEPT ![c] =
          [IdleCall EXCEPT
             !.pc = "probe", !.tool = "create", !.section = w.section,
             !.slug = w.slug, !.content = w.content,
             !.file_name = CandidateName(w.section \o <<"-">> \o w.slug, 0),
             !.full_path = PathJoin(DirName(CV_SECTIONS_PATHS[w.section]),
                              CandidateName(w.section \o <<"-">> \o w.slug, 0)),
             !.counter = 1]]
    /\ UNCHANGED <<store, request, response, created, ncreated, client>>

\* server.py 133-138: one client.exists call of the probing loop
ProbeStep(c) ==
    /\ calls[c].pc = "probe"
    /\ calls' = [calls EXCEPT ![c] =
          IF Exists(store, calls[c].full_path)
          THEN [calls[c] EXCEPT
                  !.file_name = CandidateName(calls[c].section \o <<"-">>
                                                \o calls[c].slug,
                                              calls[c].counter),
                  !.full_path = PathJoin(
                      DirName(CV_SECTIONS_PATHS[calls[c].section]),
                      CandidateName(calls[c].section \o <<"-">>
                                      \o calls[c].slug, calls[c].counter)),
                  !.counter = calls[c].counter + 1]
          ELSE [calls[c] EXCEPT !.pc = "write"]]
    /\ UNCHANGED <<store, request, response, created, ncreated, client>>

\* server.py 145-153: the write of create_tailored_section and its result
WriteStep(c) ==
    /\ calls[c].pc = "write"
    /\ store' = Write(store, calls[c].full_path, calls[c].content)
    /\ calls' = [calls EXCEPT ![c] =
          [calls[c] EXCEPT !.pc = "done", !.status = "success",
                           !.wrote = TRUE]]
    /\ response' = [NoResponse EXCEPT
                      !.tool = "create", !.status = "success",
                      !.file_path = calls[c].full_path,
                      !.filename = calls[c].file_name,
                      !.pre = store,
                      !.writes = << <<calls[c].full_path, calls[c].content>> >>]
    /\ UNCHANGED <<request, created, ncreated, client>>

\* server.py 171-178: update_main_tex_with_new_sections up to its read
StartUpdate(c, fs) ==
    /\ calls[c].pc = "idle"
    /\ calls' = [calls EXCEPT ![c] =
          [IdleCall EXCEPT !.pc = "read", !.tool = "update",
                           !.filenames = fs]]
    /\ UNCHANGED <<store, request, response, created, ncreated, client>>

\* server.py 180: original_content = client.read(main_tex_path)
ReadStep(c) ==
    /\ calls[c].pc = "read"
    /\ calls' = [calls EXCEPT ![c] =
          [calls[c] EXCEPT !.pc = "loaded",
                           !.text = Read(store, CV_MAIN_TEX_PATH)]]
    /\ UNCHANGED <<store, request, response, created, ncreated, client>>

\* server.py 181-227: the loop on the text read, then the write and result
WriteBackStep(c) ==
    /\ calls[c].pc = "loaded"
    /\ \E u \in {WriteBack(store, CV_MAIN_TEX_PATH, calls[c].text,
                           RepointLoop(calls[c].text, calls[c].filenames))} :
         /\ store' = u.store
         /\ calls' = [calls EXCEPT ![c] =
               [calls[c] EXCEPT !.pc = "done", !.status = u.status,
                                !.err = u.err, !.wrote = u.writes # << >>]]
         /\ response' = [NoResponse EXCEPT
                           !.tool = "update", !.status = u.status,
                           !.err = u.err, !.pre = store, !.writes = u.writes,
                           !.single = calls[c].filenames[1]]
    /\ UNCHANGED <<request, created, ncreated, client>>

\* another writer edits the master document (once)
ExternalEditMain ==
    /\ Main(store)[Len(Main(store))] # "%edit"
    /\ store' = Write(store, CV_MAIN_TEX_PATH, Main(store) \o <<"%edit">>)
    /\ UNCHANGED <<request, response, created, ncreated, calls, client>>

NextRace ==
    \/ \E c \in Callers, w \in RaceWriterInputs : StartCreate(c, w)
    \/ \E c \in Callers : ProbeStep(c)
    \/ \E c \in Callers : WriteStep(c)
    \/ \E c \in Callers, fs \in RaceFilenameLists : StartUpdate(c, fs)
    \/ \E c \in Callers : ReadStep(c)
    \/ \E c \in Callers : WriteBackStep(c)
    \/ ExternalEditMain

SpecRace == Init /\ [][NextRace]_vars

(***************************************************************************)
(* C17: the probe and the write of create_tailored_section are separate    *)
(* steps.  When two concurrent calls for the same section and slug have    *)
(* resolved the same path, both report success with that path and the file *)
(* holds the content of the call that wrote last, the other content being  *)
(* lost; the witness is such an outcome.                                   *)
(***************************************************************************)
C17_WriterRace ==
    \A c, d \in Callers :
       (/\ c # d
        /\ calls[c].tool = "create" /\ calls[c].pc = "done"
        /\ calls[d].tool = "create" /\ calls[d].pc = "done"
        /\ calls[c].full_path = calls[d].full_path) =>
          /\ calls[c].status = "success"
          /\ calls[d].status = "success"
          /\ response.tool = "create"
          /\ response.file_path = calls[c].full_path
          /\ store[calls[c].full_path] = response.writes[1][2]
          /\ response.writes[1][2] \in {calls[c].content, calls[d].content}

C17_Witness ==
    /\ calls["a"].tool = "create" /\ calls["a"].pc = "done"
    /\ calls["b"].tool = "create" /\ calls["b"].pc = "done"
    /\ calls["a"].section = calls["b"].section
    /\ calls["a"].slug = calls["b"].slug
    /\ calls["a"].full_path = calls["b"].full_path
    /\ calls["a"].status = "success"
    /\ calls["b"].status = "success"
    /\ calls["a"].content # calls["b"].content
    /\ store[calls["a"].full_path] = calls["b"].content

(***************************************************************************)
(* C18: update_main_tex_with_new_sections writes the text it computed from *)
(* the text it read, whatever the master document has become since: a      *)
(* change another writer made between the read and the write is lost, and  *)
(* the call reports success.  The witness: concurrent re-points of         *)
(* experience and skills both report success and only one is in the        *)
(* document.                                                               *)
(***************************************************************************)
C18_LostUpdate ==
    [][\A c \in Callers :
         (calls[c].pc = "loaded" /\ calls'[c].pc = "done") =>
            \A r \in {RepointLoop(calls[c].text, calls[c].filenames)} :
               (r.err = << >> /\ r.text # calls[c].text) =>
                  /\ calls'[c].status = "success"
                  /\ Main(store') = r.text]_vars

C18_Witness ==
    /\ calls["a"].tool = "update" /\ calls["a"].pc = "done"
    /\ calls["b"].tool = "update" /\ calls["b"].pc = "done"
    /\ calls["a"].status = "success"
    /\ calls["b"].status = "success"
    /\ calls["a"].filenames = << <<"experience", "-", "acme", ".tex">> >>
    /\ calls["b"].filenames = << <<"skills", "-", "acme", ".tex">> >>
    /\ Directives(<<"experience">>, Main(store))
         = <<Canonical(<<"experience">>)>>
    /\ Directives(<<"skills">>, Main(store))
         = <<ReplacementString(<<"skills", "-", "acme", ".tex">>)>>

(***************************************************************************)
(* C20: the entries of one list are applied in list order to the text as   *)
(* the earlier entries left it: when several file names of the list derive *)
(* the same registered section s and the call returns, the master document *)
(* that had one directive for s still has exactly one, and it names the    *)
(* last of these file names.                                               *)
(***************************************************************************)
\* the entries of fs that derive section s, in list order
EntriesFor(s, fs) == SelectSeq(fs, LAMBDA f : BaseSection(f) = s)

C20_LastEntryWins ==
    [][(request.tool = "update") =>
         \A s \in Registered :
            \A mine \in {EntriesFor(s, request.filenames)} :
               (/\ Len(mine) >= 2
                /\ Len(Directives(s, Main(store))) = 1
                /\ response'.status \in {"success", "no_changes"}) =>
                  /\ Len(Directives(s, Main(store'))) = 1
                  /\ DirectivePath(Directives(s, Main(store'))[1])
                       = <<"sections/">> \o mine[Len(mine)]]_vars

(***************************************************************************)
(* C23: the canonical file name s.tex derives section s.  When a re-point  *)
(* of s to a tailored file has succeeded on a master document that held    *)
(* \input{sections/s.tex} as its one directive for s, the call             *)
(* update_main_tex_with_new_sections(["s.tex"]) that follows restores that *)
(* directive and the master document is again the original one.            *)
(***************************************************************************)
C23_RevertOf(s) ==
    /\ request.tool = "update"
    /\ request.filenames = <<s \o <<".tex">> >>
    /\ response.tool = "update"
    /\ response.status = "success"
    /\ response.single # << >>
    /\ BaseSection(response.single) = s
    /\ Directives(s, Main(response.pre)) = <<Canonical(s)>>

C23_RevertToCanonical ==
    [][\A s \in Registered :
         C23_RevertOf(s) =>
            /\ BaseSection(s \o <<".tex">>) = s
            /\ response'.status = "success"
            /\ Directives(s, Main(store')) = <<Canonical(s)>>
            /\ Main(store') = Main(response.pre)]_vars

(***************************************************************************)
(* The four tools called one after another by one session, on the          *)
(* canonical project.                                                      *)
(***************************************************************************)
ToolInputs ==
    { [section |-> <<"experience">>, slug |-> sl, content |-> <<"C1">>] :
        sl \in { <<"acme">>, <<"acme", "\\1">>, <<"acme", " ", "swe">>,
                 <<"x", "/", "../", "../", "main">> } }
      \cup { [section |-> <<"skills">>, slug |-> <<"acme">>,
              content |-> <<"C2">>] }

NextTools ==
    \/ CallGetFull({})
    \/ GetFullResume
    \/ \E cv_section \in Registered : CallRead(cv_section, {})
    \/ ReadCvSection
    \/ \E f \in CanonicalNames \cup Returned : CallUpdate(<<f>>)
    \/ UpdateMainTex
    \/ \E w \in ToolInputs : CallCreate(w)
    \/ CreateTailoredSection

SpecTools == Init /\ [][NextTools]_vars

(***************************************************************************)
(* C24: from a master document with exactly one directive for s, when      *)
(* create_tailored_section(s, slug, c) has returned f and the call made    *)
(* next, update_main_tex_with_new_sections([f]), succeeds, the document's  *)
(* one directive for s references sections/f, that file exists with        *)
(* content c, and the canonical file of s still has its original content.  *)
(***************************************************************************)
C24_UpdateAfterCreate(r) ==
    /\ request.tool = "update"
    /\ response.tool = "create"
    /\ response.status = "success"
    /\ r.file_path = response.file_path
    /\ request.filenames = <<r.filename>>
    /\ Len(Directives(r.section, Main(store))) = 1

C24_Workflow ==
    [][\A r \in created :
         (C24_UpdateAfterCreate(r) /\ response'.status = "success") =>
            /\ Len(Directives(r.section, Main(store'))) = 1
            /\ DirectivePath(Directives(r.section, Main(store'))[1])
                 = <<"sections/">> \o r.filename
            /\ <<"sections/">> \o r.filename \in DOMAIN store'
            /\ store'[<<"sections/">> \o r.filename] = r.content
            /\ CV_SECTIONS_PATHS[r.section] \in DOMAIN store'
            /\ store'[CV_SECTIONS_PATHS[r.section]]
                 = InitStore(CanonicalDoc)[CV_SECTIONS_PATHS[r.section]]]_vars

(***************************************************************************)
(* C27: get_full_resume and read_cv_section leave the project as it is;    *)
(* update_main_tex_with_new_sections changes no file other than main.tex   *)
(* and neither creates nor removes a file; create_tailored_section leaves  *)
(* main.tex as it is; no tool removes a file.                              *)
(***************************************************************************)
C27_WriteFootprint ==
    [][/\ DOMAIN store \subseteq DOMAIN store'
       /\ request.tool \in {"full", "read"} => store' = store
       /\ request.tool = "update" =>
             /\ DOMAIN store' = DOMAIN store
             /\ \A p \in DOMAIN store \ {CV_MAIN_TEX_PATH} :
                   store'[p] = store[p]
       /\ request.tool = "create" =>
             store'[CV_MAIN_TEX_PATH] = store[CV_MAIN_TEX_PATH]]_vars

\* a fragment was created from a slug that walks up to the project root,
\* the document was re-pointed, and the last call was a reader
C27_Witness ==
    /\ Done
    /\ response.tool = "full"
    /\ response.pre = store
    /\ Main(store) # CanonicalDoc
    /\ \E r \in created :
          /\ r.slug = <<"x", "/", "../", "../", "main">>
          /\ store[r.file_path] = r.content
    /\ \A s \in Registered :
          store[CV_SECTIONS_PATHS[s]]
             = InitStore(CanonicalDoc)[CV_SECTIONS_PATHS[s]]

(***************************************************************************)
(* C25: update_main_tex_with_new_sections never asks the store whether a   *)
(* file an entry names exists.  A call with an entry that derives a        *)
(* registered section and names no existing file ends as the document and  *)
(* the list alone decide: when every entry finds its directive the call    *)
(* succeeds and the document written references the absent file.  The      *)
(* witness is a document with a directive that references no existing file.*)
(***************************************************************************)
C25_NamesAbsentFile(fs) ==
    \E k \in 1..Len(fs) :
       /\ BaseSection(fs[k]) \in Registered
       /\ <<"sections/">> \o fs[k] \notin DOMAIN store

C25_NoExistenceCheck ==
    [][(request.tool = "update" /\ C25_NamesAbsentFile(request.filenames)) =>
         \A u \in {RepointLoop(Main(store), request.filenames)} :
            /\ (u.err = << >>) = (response'.status \in {"success", "no_changes"})
            /\ u.err = << >> => Main(store') = u.text]_vars

C25_Witness ==
    /\ Done
    /\ response.tool = "update"
    /\ response.status = "success"
    /\ response.single = <<"experience", "-", "acme", ".tex">>
    /\ Len(Directives(<<"experience">>, Main(store))) = 1
    /\ DirectivePath(Directives(<<"experience">>, Main(store))[1])
         = <<"sections/", "experience", "-", "acme", ".tex">>
    /\ <<"sections/", "experience", "-", "acme", ".tex">> \notin DOMAIN store

(***************************************************************************)
(* C26: when the master document holds k >= 1 directives for section s, a  *)
(* successful re-point of s to f replaces every one of the k with the      *)
(* directive for f, so that the document holds as many directives for      *)
(* each registered section after the call as before it.                    *)
(***************************************************************************)
C26_AllMatchesReplaced ==
    (/\ RepointedOne
     /\ response.status = "success"
     /\ Len(Directives(BaseSection(response.single), Main(response.pre))) >= 1)
    => /\ \A s \in Registered :
             Len(Directives(s, Main(store)))
                = Len(Directives(s, Main(response.pre)))
       /\ \A d \in {Directives(BaseSection(response.single), Main(store))} :
             \A k \in 1..Len(d) : d[k] = ReplacementString(response.single)

(***************************************************************************)
(* One session calling create_tailored_section, one client call per step,  *)
(* on a project that may already hold tailored files of earlier calls.  No *)
(* other caller creates files.  A handler that has started runs on: its    *)
(* probe and its write are taken whenever they are enabled.                *)
(***************************************************************************)
EarlierFiles(n) ==
    { PathJoin(DirName(CV_SECTIONS_PATHS[<<"experience">>]),
               CandidateName(<<"experience", "-", "acme">>, k)) : k \in 0..(n - 1) }

InitProbe ==
    /\ \E n \in 0..MaxFiles :
          store = [p \in DOMAIN InitStore(CanonicalDoc) \cup EarlierFiles(n) |->
                     IF p \in EarlierFiles(n) THEN <<"old">>
                     ELSE InitStore(CanonicalDoc)[p]]
    /\ request = NoRequest
    /\ response = NoResponse
    /\ created = {}
    /\ ncreated = 0
    /\ calls = NoCalls
    /\ client = NoClient

StartAlone(w) ==
    /\ ncreated < MaxFiles
    /\ StartCreate("a", w)

ProbeAlone ==
    /\ calls["a"].counter <= MaxProbes
    /\ ProbeStep("a")

\* server.py 148-153: the result is returned; the session may call again
ReturnToCaller(c) ==
    /\ calls[c].pc = "done"
    /\ calls' = [calls EXCEPT ![c] = IdleCall]
    /\ ncreated' = ncreated + 1
    /\ UNCHANGED <<store, request, response, created, client>>

NextProbe ==
    \/ \E w \in WriterInputs : StartAlone(w)
    \/ ProbeAlone
    \/ WriteStep("a")
    \/ ReturnToCaller("a")

SpecProbe ==
    /\ InitProbe
    /\ [][NextProbe]_vars
    /\ WF_vars(ProbeAlone)
    /\ WF_vars(WriteStep("a"))

\* the files of the directory the call writes to
FilesIn(st, dir) == { p \in DOMAIN st : SubSeq(p, 1, Len(dir)) = dir }

(***************************************************************************)
(* C22: with finitely many files and no concurrent creator, the probing    *)
(* loop of create_tailored_section makes at most (number of files in the   *)
(* target directory + 1) probes, and a call that probes reaches its write. *)
(* counter is the number of probes made once the loop has ended, and one   *)
(* more than the probes made while it runs.                                *)
(***************************************************************************)
C22_ProbeTerminates ==
    /\ [](calls["a"].pc \in {"probe", "write"} =>
            calls["a"].counter
               <= Cardinality(FilesIn(store,
                     DirName(CV_SECTIONS_PATHS[calls["a"].section]))) + 1)
    /\ (calls["a"].pc = "probe") ~> (calls["a"].pc = "done" /\ calls["a"].wrote)

\* the third probe found a free name and the file was written
C22_Witness ==
    /\ calls["a"].pc = "done"
    /\ calls["a"].wrote
    /\ calls["a"].counter = 3
    /\ calls["a"].file_name = CandidateName(<<"experience", "-", "acme">>, 2)
    /\ store[calls["a"].full_path] = calls["a"].content

(***************************************************************************)
(* create_tailored_section with a store that can raise.  Every client call *)
(* of the handler (mkdir, exists, write) is inside the try block of        *)
(* server.py 120-156: an exception of any of them ends the call with a     *)
(* ToolError.  A write that raises may or may not have stored the file.    *)
(***************************************************************************)

\* mutant: the exception is logged and the result dictionary is returned
OnStoreError_Swallow(call, op) ==
    [call EXCEPT !.pc = "done", !.status = "success"]

\* server.py 154-156: except Exception as e: raise ToolError(...)
OnStoreError(call, op) ==
    [call EXCEPT !.pc = "done", !.status = "error",
                 !.err = <<"Failed to write to file in project", op>>]

\* server.py 116-121: the arguments are bound and the client is built
BeginCreate(c, w) ==
    /\ calls[c].pc = "idle"
    /\ calls' = [calls EXCEPT ![c] =
          [IdleCall EXCEPT !.pc = "mkdir", !.tool = "create",
                           !.section = w.section, !.slug = w.slug,
                           !.content = w.content]]
    /\ UNCHANGED <<store, request, response, created, ncreated, client>>

\* server.py 122-130: client.mkdir returns, then the first candidate
MkdirStep(c) ==
    /\ calls[c].pc = "mkdir"
    /\ calls' = [calls EXCEPT ![c] =
          [calls[c] EXCEPT
             !.pc = "probe",
             !.file_name = CandidateName(calls[c].section \o <<"-">>
                                           \o calls[c].slug, 0),
             !.full_path = PathJoin(
                 DirName(CV_SECTIONS_PATHS[calls[c].section]),
                 CandidateName(calls[c].section \o <<"-">> \o calls[c].slug,
                               0)),
             !.counter = 1]]
    /\ UNCHANGED <<store, request, response, created, ncreated, client>>

\* the result of a call that ended in its except block
FailedResponse(call, st) ==
    [NoResponse EXCEPT !.tool = "create", !.status = call.status,
                       !.err = call.err, !.pre = st]

\* server.py 122: client.mkdir raises
MkdirFails(c) ==
    /\ calls[c].pc = "mkdir"
    /\ calls' = [calls EXCEPT ![c] = OnStoreError(calls[c], "mkdir")]
    /\ response' = FailedResponse(OnStoreError(calls[c], "mkdir"), store)
    /\ UNCHANGED <<store, request, created, ncreated, client>>

\* server.py 133: client.exists raises
ProbeFails(c) ==
    /\ calls[c].pc = "probe"
    /\ calls' = [calls EXCEPT ![c] = OnStoreError(calls[c], "exists")]
    /\ response' = FailedResponse(OnStoreError(calls[c], "exists"), store)
    /\ UNCHANGED <<store, request, created, ncreated, client>>

\* server.py 145: client.write raises, before or after the file is stored
WriteFails(c, landed) ==
    /\ calls[c].pc = "write"
    /\ store' = IF landed
                THEN Write(store, calls[c].full_path, calls[c].content)
                ELSE store
    /\ calls' = [calls EXCEPT ![c] =
          [OnStoreError(calls[c], "write") EXCEPT !.wrote = landed]]
    /\ response' = FailedResponse(OnStoreError(calls[c], "write"), store)
    /\ UNCHANGED <<request, created, ncreated, client>>

NextFault ==
    \/ \E w \in WriterInputs : ncreated < MaxFiles /\ BeginCreate("a", w)
    \/ MkdirStep("a")
    \/ MkdirFails("a")
    \/ ProbeAlone
    \/ ProbeFails("a")
    \/ WriteStep("a")
    \/ \E landed \in BOOLEAN : WriteFails("a", landed)
    \/ ReturnToCaller("a")

SpecFault == InitProbe /\ [][NextFault]_vars

(***************************************************************************)
(* C21: create_tailored_section ensures the target directory before it     *)
(* probes and probes before it writes; the store changes only by the one   *)
(* write of the whole content to the path the probe resolved; the call     *)
(* reports success only from that write; a call ended by an exception of   *)
(* mkdir or exists reports an error and has changed no file; a call ended  *)
(* at its write reports success only when the file holds the content.      *)
(***************************************************************************)
C21_Ended(c) == calls[c].pc # "done" /\ calls'[c].pc = "done"

C21_FailClosedWriter ==
    [][\A c \in {"a"} :
         /\ (calls'[c].pc = "probe" /\ calls[c].pc # "probe") =>
               calls[c].pc = "mkdir"
         /\ (calls'[c].pc = "write" /\ calls[c].pc # "write") =>
               calls[c].pc = "probe"
         /\ store' # store =>
               /\ calls[c].pc = "write"
               /\ ~calls[c].wrote
               /\ store' = Write(store, calls[c].full_path, calls[c].content)
         /\ (C21_Ended(c) /\ calls[c].pc \in {"mkdir", "probe"}) =>
               /\ calls'[c].status = "error"
               /\ response'.status = "error"
               /\ store' = store
         /\ (C21_Ended(c) /\ calls[c].pc = "write") =>
               /\ calls'[c].status \in {"success", "error"}
               /\ response'.status = calls'[c].status
               /\ calls'[c].status = "success" =>
                     /\ calls[c].full_path \notin DOMAIN store
                     /\ calls[c].full_path \in DOMAIN store'
                     /\ store'[calls[c].full_path] = calls[c].content
                     /\ response'.file_path = calls[c].full_path]_vars

\* a probe raised after an earlier file had been found: the call ended with
\* an error and the project is as it was
C21_Witness ==
    /\ calls["a"].pc = "done"
    /\ calls["a"].status = "error"
    /\ calls["a"].err = <<"Failed to write to file in project", "exists">>
    /\ calls["a"].counter = 2
    /\ response.tool = "create"
    /\ response.status = "error"
    /\ store = response.pre
    /\ calls["a"].full_path \notin DOMAIN store

====
